---- MODULE Spec2Model ----
(***************************************************************************)
(* Model of the embedding request pipeline of Archon:                      *)
(*   python/src/server/services/embeddings/embedding_service.py            *)
(* _process_embeddings_with_client (the batch run) and its caller          *)
(* create_embeddings_batch.                                                *)
(*                                                                         *)
(* Input texts are identified by their 1-based position in the input list. *)
(* The variable i keeps the 0-based offset of the code's for loop.         *)
(***************************************************************************)
EXTENDS Integers, Sequences, FiniteSets, TLC

\* ---------------------------------------------------------------- bounds
MaxTexts == 3
MaxBatchSize == 2
\* provider errors and malformed replies injected into one call of
\* create_embeddings_batch
MaxFaults == 3

\* ------------------------------------------------------ program constants
DefaultBatchSize == 100
max_retries == 3

VARIABLES
    texts,              \* the input list handed to the run
    batch_size,         \* EMBEDDING_BATCH_SIZE as loaded by the run
    progress_callback,  \* TRUE when a progress callback was supplied
    result,             \* the EmbeddingBatchResult being filled
    pc,                 \* position inside _process_embeddings_with_client
    i,                  \* loop offset of the for loop (0-based)
    retry_count,        \* retry counter of the current batch
    held,               \* rate-limiter scopes currently entered by the run
    trace,              \* calls made to the outside: requests, sleeps, callbacks
    faults_left,        \* provider faults the environment may still inject
    cpc,                \* position inside create_embeddings_batch
    use_new_provider_manager, \* the flag of create_embeddings_batch
    provider_manager,   \* TRUE when a ProviderManager instance was passed
    client,             \* "none" | "open" | "closed"
    ret,                \* what create_embeddings_batch returned
    single,             \* TRUE when the call was made by create_embedding
    single_out,         \* how create_embedding ended
    store,              \* the model_config table: service -> model_string
    now,                \* time.time()
    _config_cache,      \* ProviderManager._config_cache
    _settings_cache,    \* llm_provider_service._settings_cache
    pmlog,              \* calls made on the ProviderManager
    answer,             \* what the last resolver or client-factory call gave
    runs,               \* concurrent calls of create_embeddings_batch
    heap,               \* the EmbeddingBatchResult objects created so far
    clients,            \* the AsyncOpenAI objects created so far
    in_flight,          \* scopes of the shared rate limiter entered
    fetched,            \* the runs that read the provider settings themselves
    _providers,         \* ProviderRegistry._providers: the registered names
    _instances,         \* ProviderRegistry._instances: the names instantiated
    _aliases,           \* ProviderRegistry._aliases: alias -> provider name
    _fallback_chain,    \* ProviderRegistry._fallback_chain
    _default_provider,  \* ProviderRegistry._default_provider, "" for None
    reg_out,            \* what the last call on the registry gave
    part,               \* the for loop of the run alone: its input, offset and batches
    _initialization_lock,     \* mcp_server: the connection holding the lock, 0 if free
    _initialization_complete, \* mcp_server: the flag
    _shared_context,    \* mcp_server: health status of the shared context, "" for None
    conns,              \* mcp_server: where each connection is inside lifespan
    session,            \* BaseProviderClient.session: TRUE when it is open
    config_max_retries, \* BaseProviderClient.config.max_retries
    retries,            \* _make_request: retries
    last_error,         \* _make_request: last_error, "" for None
    mr_pc,              \* _make_request: position
    mr_log              \* _make_request: the attempts and waits made

vars == <<texts, batch_size, progress_callback, result, pc, i, retry_count,
          held, trace, faults_left, cpc, use_new_provider_manager, provider_manager,
          client, ret, single, single_out, store, now, _config_cache,
          _settings_cache, pmlog, answer, runs, heap, clients, in_flight, fetched,
          _providers, _instances, _aliases, _fallback_chain, _default_provider,
          reg_out, part, _initialization_lock, _initialization_complete,
          _shared_context, conns, session, config_max_retries, retries, last_error,
          mr_pc, mr_log>>

singleVars == <<single, single_out>>
pmVars == <<store, now, _config_cache, _settings_cache, pmlog, answer>>
concVars == <<runs, heap, clients, in_flight, fetched>>
regVars == <<_providers, _instances, _aliases, _fallback_chain, _default_provider, reg_out>>
partVars == <<part>>
lifeVars == <<_initialization_lock, _initialization_complete, _shared_context, conns>>
mrVars == <<session, config_max_retries, retries, last_error, mr_pc, mr_log>>
otherVars == <<regVars, partVars, lifeVars, mrVars>>
runVars == <<texts, batch_size, progress_callback, singleVars, pmVars, concVars, otherVars>>
Fault == faults_left > 0 /\ faults_left' = faults_left - 1
callerVars == <<cpc, use_new_provider_manager, provider_manager, client, ret>>

\* ----------------------------------------------------------- data helpers
Min(a, b) == IF a < b THEN a ELSE b

\* A model_string "provider:model"; provider is "" when the string has no colon.
\* NoEntry stands for a service without a row in model_config.
NoEntry == [provider |-> "", model |-> ""]

\* Service names used with the resolvers
Services == {"embeddings", "rag_agent"}

\* an empty dict
EmptyCache == [k \in {} |-> NoEntry]

NoAnswer ==
    [fn |-> "none", arg |-> "-", provider |-> "-", found |-> FALSE,
     outcome |-> "-", detail |-> "-", api_key |-> "-"]

\* The concurrent calls being looked at
Runs == {1, 2}

\* No concurrent calls are looked at
ConcIdle ==
    /\ runs = [r \in Runs |-> 0]
    /\ heap = <<>>
    /\ clients = <<>>
    /\ in_flight = 0
    /\ fetched = {}

\* what a registry call gave: the call, its result, and for
\* get_available_provider the chain it walked, what each name resolved to and
\* what each health check reported
NoRegOut ==
    [op |-> "none", outcome |-> "-", chain |-> <<>>, resolved |-> <<>>, health |-> <<>>]

\* ProviderRegistry.__init__: an empty registry
RegistryEmpty ==
    /\ _providers = {}
    /\ _instances = {}
    /\ _aliases = [k \in {} |-> ""]
    /\ _fallback_chain = <<>>
    /\ _default_provider = ""
    /\ reg_out = NoRegOut

\* the connections looked at
MaxConns == 3
Conns == 1..MaxConns

\* no partition is being computed
NoSetting == [kind |-> "missing", value |-> 0]
PartIdle ==
    part = [texts |-> <<>>, setting |-> NoSetting, batch_size |-> DefaultBatchSize,
            i |-> 0, batches |-> <<>>, pc |-> "idle"]

\* the module-level state of mcp_server after import, no connection yet
LifespanIdle ==
    /\ _initialization_lock = 0
    /\ _initialization_complete = FALSE
    /\ _shared_context = ""
    /\ conns = [c \in Conns |-> "out"]

\* no request is being made by a provider client
RequestIdle ==
    /\ session = FALSE
    /\ config_max_retries = 1
    /\ retries = 0
    /\ last_error = ""
    /\ mr_pc = "idle"
    /\ mr_log = <<>>

\* The parts of the system outside the embedding pipeline are untouched
OtherIdle == RegistryEmpty /\ PartIdle /\ LifespanIdle /\ RequestIdle

\* No resolver has been used
PMIdle ==
    /\ store = [s \in Services |-> NoEntry]
    /\ now = 0
    /\ _config_cache = EmptyCache
    /\ _settings_cache = EmptyCache
    /\ pmlog = <<>>
    /\ answer = NoAnswer

\* The vector the provider computes for an input text; never the zero vector.
Embedding(text) == 10 + text
ZeroVector == 0

\* EmbeddingBatchResult()
EmptyResult ==
    [embeddings |-> <<>>, failed_items |-> <<>>, success_count |-> 0,
     failure_count |-> 0, texts_processed |-> <<>>]

\* add_success inserting at the front instead of appending
add_success_front(r, embedding, text) ==
    [r EXCEPT !.embeddings = <<embedding>> \o @,
              !.texts_processed = <<text>> \o @,
              !.success_count = @ + 1]

\* EmbeddingBatchResult.add_success
add_success(r, embedding, text) ==
    [r EXCEPT !.embeddings = Append(@, embedding),
              !.texts_processed = Append(@, text),
              !.success_count = @ + 1]

\* The exception classes of embedding_exceptions that derive from EmbeddingError
EmbeddingErrors ==
    {"EmbeddingAPIError", "EmbeddingRateLimitError", "EmbeddingQuotaExhaustedError"}

\* add_failure that also stores a zero vector for the failed text
add_failure_placeholder(r, text, error, batch_index) ==
    [r EXCEPT !.failed_items =
                  Append(@, [text |-> text, error |-> error.message,
                             error_type |-> error.type,
                             batch_index |-> batch_index]),
              !.embeddings = Append(@, ZeroVector),
              !.texts_processed = Append(@, text),
              !.failure_count = @ + 1]

\* EmbeddingBatchResult.add_failure: error is [type, message]
add_failure(r, text, error, batch_index) ==
    [r EXCEPT !.failed_items =
                  Append(@, [text |-> text, error |-> error.message,
                             error_type |-> error.type,
                             batch_index |-> batch_index]),
              !.failure_count = @ + 1]

\* texts[a:] and texts[a:b] of Python, a and b 0-based
SliceFrom(s, a) == SubSeq(s, a + 1, Len(s))
Slice(s, a, b) == SubSeq(s, a + 1, Min(b, Len(s)))

\* for text, item in zip(batch, response.data, strict=False): add_success(...)
RECURSIVE ZipSuccess(_, _, _)
ZipSuccess(r, batch, data) ==
    IF batch = <<>> \/ data = <<>> THEN r
    ELSE ZipSuccess(add_success(r, Head(data), Head(batch)), Tail(batch), Tail(data))

\* for text in ts: result.add_failure(text, error, batch_index)
RECURSIVE FailAll(_, _, _, _)
FailAll(r, ts, error, batch_index) ==
    IF ts = <<>> THEN r
    ELSE FailAll(add_failure(r, Head(ts), error, batch_index), Tail(ts), error, batch_index)

\* EmbeddingQuotaExhaustedError("Quota exhausted", tokens_used=...)
QuotaError == [type |-> "EmbeddingQuotaExhaustedError", message |-> "Quota exhausted"]

\* The except-Exception handler of a batch: an EmbeddingError is recorded as it
\* is, anything else is wrapped into EmbeddingAPIError carrying str(e).
BatchError(e) ==
    IF e \in EmbeddingErrors
    THEN [type |-> e, message |-> e]
    ELSE [type |-> "EmbeddingAPIError", message |-> e]

\* a constant delay instead of the exponential one
WaitTimeFlat(rc) == 2

\* wait_time = 2**retry_count
WaitTime(rc) == 2 ^ rc

\* ------------------------------------------------------- the batch run
Batch == Slice(texts, i, i + batch_size)
BatchIndex == i \div batch_size

\* response.data of a provider reply carrying k vectors for the request batch
ResponseData(batch, k) ==
    [j \in 1..k |-> IF j <= Len(batch) THEN Embedding(batch[j]) ELSE Embedding(0)]

Event(ev, outcome, n) ==
    [ev |-> ev, batch |-> BatchIndex, outcome |-> outcome, n |-> n]

\* What the provider's exceptions are called in the openai package
TransientErrors == {"APITimeoutError"}
OtherErrors == {"APIConnectionError"}

\* for i in range(0, len(texts), batch_size): next batch or return result
LoopTop ==
    /\ pc = "loop"
    /\ IF i < Len(texts) THEN pc' = "acquire" ELSE pc' = "returned"
    /\ UNCHANGED <<runVars, faults_left, result, i, retry_count, held, trace, callerVars>>

\* token estimate, async with threading_service.rate_limited_operation(...),
\* retry_count = 0
Acquire ==
    /\ pc = "acquire"
    /\ held' = held + 1
    /\ retry_count' = 0
    /\ pc' = "request"
    /\ UNCHANGED <<runVars, faults_left, result, i, trace, callerVars>>

\* after the try/except of one batch: the rate-limiter scope has been left
AfterBatch == IF progress_callback THEN "progress" ELSE "yield"

\* client.embeddings.create answers with k vectors
RequestOk ==
    /\ pc = "request"
    /\ retry_count < max_retries
    /\ \E k \in 0..(Len(Batch) + 1) :
        /\ IF k = Len(Batch) THEN UNCHANGED faults_left ELSE Fault
        /\ trace' = Append(trace, Event("request", "ok", k))
        /\ result' = ZipSuccess(result, Batch, ResponseData(Batch, k))
    /\ held' = held - 1
    /\ pc' = AfterBatch
    /\ UNCHANGED <<runVars, i, retry_count, callerVars>>

\* quota exhaustion handled like a failed batch: the loop goes on
RequestQuotaContinue ==
    /\ pc = "request"
    /\ retry_count < max_retries
    /\ Fault
    /\ trace' = Append(trace, Event("request", "quota", 0))
    /\ result' = FailAll(result, SliceFrom(texts, i), QuotaError, BatchIndex)
    /\ held' = held - 1
    /\ pc' = AfterBatch
    /\ UNCHANGED <<runVars, i, retry_count, callerVars>>

\* quota exhaustion failing the current batch only
RequestQuotaBatchOnly ==
    /\ pc = "request"
    /\ retry_count < max_retries
    /\ Fault
    /\ trace' = Append(trace, Event("request", "quota", 0))
    /\ result' = FailAll(result, Batch, QuotaError, BatchIndex)
    /\ held' = held - 1
    /\ pc' = "returned"
    /\ UNCHANGED <<runVars, i, retry_count, callerVars>>

\* the quota early return keeping the rate-limiter scope
RequestQuotaHold ==
    /\ pc = "request"
    /\ retry_count < max_retries
    /\ Fault
    /\ trace' = Append(trace, Event("request", "quota", 0))
    /\ result' = FailAll(result, SliceFrom(texts, i), QuotaError, BatchIndex)
    /\ held' = held
    /\ pc' = "returned"
    /\ UNCHANGED <<runVars, i, retry_count, callerVars>>

\* openai.RateLimitError whose message contains "insufficient_quota"
RequestQuota ==
    /\ pc = "request"
    /\ retry_count < max_retries
    /\ Fault
    /\ trace' = Append(trace, Event("request", "quota", 0))
    /\ result' = FailAll(result, SliceFrom(texts, i), QuotaError, BatchIndex)
    /\ held' = held - 1
    /\ pc' = "returned"
    /\ UNCHANGED <<runVars, i, retry_count, callerVars>>

\* openai.RateLimitError without the quota marker
RequestRateLimit ==
    /\ pc = "request"
    /\ retry_count < max_retries
    /\ Fault
    /\ trace' = Append(trace, Event("request", "rate_limit", 0))
    /\ retry_count' = retry_count + 1
    /\ IF retry_count' < max_retries
       THEN /\ pc' = "sleep"
            /\ UNCHANGED <<result, held>>
       ELSE \* raise: handled by the except Exception of the batch
            /\ result' = FailAll(result, Batch, BatchError("RateLimitError"), BatchIndex)
            /\ held' = held - 1
            /\ pc' = AfterBatch
    /\ UNCHANGED <<runVars, i, callerVars>>

\* a failed batch ending the run
RequestErrorAbort ==
    /\ pc = "request"
    /\ retry_count < max_retries
    /\ Fault
    /\ \E e \in TransientErrors \cup OtherErrors :
        /\ trace' = Append(trace, Event("request",
                              IF e \in TransientErrors THEN "timeout" ELSE "error", 0))
        /\ result' = FailAll(result, Batch, BatchError(e), BatchIndex)
    /\ held' = held - 1
    /\ pc' = "returned"
    /\ UNCHANGED <<runVars, i, retry_count, callerVars>>

\* a timeout retried with backoff like a rate-limit error
RequestErrorRetry ==
    /\ pc = "request"
    /\ retry_count < max_retries
    /\ Fault
    /\ \E e \in TransientErrors \cup OtherErrors :
        /\ trace' = Append(trace, Event("request",
                              IF e \in TransientErrors THEN "timeout" ELSE "error", 0))
        /\ IF e \in TransientErrors /\ retry_count + 1 < max_retries
           THEN /\ retry_count' = retry_count + 1
                /\ pc' = "sleep"
                /\ UNCHANGED <<result, held>>
           ELSE /\ result' = FailAll(result, Batch, BatchError(e), BatchIndex)
                /\ held' = held - 1
                /\ pc' = AfterBatch
                /\ UNCHANGED retry_count
    /\ UNCHANGED <<runVars, i, callerVars>>

\* any other exception of the request, a timeout included
RequestError ==
    /\ pc = "request"
    /\ retry_count < max_retries
    /\ Fault
    /\ \E e \in TransientErrors \cup OtherErrors :
        /\ trace' = Append(trace, Event("request",
                              IF e \in TransientErrors THEN "timeout" ELSE "error", 0))
        /\ result' = FailAll(result, Batch, BatchError(e), BatchIndex)
    /\ held' = held - 1
    /\ pc' = AfterBatch
    /\ UNCHANGED <<runVars, i, retry_count, callerVars>>

\* await asyncio.sleep(wait_time)
Backoff ==
    /\ pc = "sleep"
    /\ trace' = Append(trace, Event("sleep", "-", WaitTime(retry_count)))
    /\ pc' = "request"
    /\ UNCHANGED <<runVars, faults_left, result, i, retry_count, held, callerVars>>

\* await progress_callback(message, progress); the callback may raise
Progress ==
    /\ pc = "progress"
    /\ \E raises \in BOOLEAN :
        /\ trace' = Append(trace, Event("progress", IF raises THEN "raised" ELSE "-",
                                        result.success_count + result.failure_count))
        /\ pc' = IF raises THEN "raised" ELSE "yield"
    /\ UNCHANGED <<runVars, faults_left, result, i, retry_count, held, callerVars>>

\* await asyncio.sleep(0.01) and the loop's step
Yield ==
    /\ pc = "yield"
    /\ i' = i + batch_size
    /\ pc' = "loop"
    /\ UNCHANGED <<runVars, faults_left, result, retry_count, held, trace, callerVars>>

\* The task running the call is cancelled while it is suspended at an await of
\* the run. asyncio.CancelledError derives from BaseException: neither the
\* except Exception of the batch nor the one of the caller catches it; a
\* rate-limiter scope it passes through is left.
Cancel ==
    /\ pc \in {"request", "sleep", "progress", "yield"}
    /\ trace' = Append(trace, Event("cancel", pc, 0))
    /\ held' = 0
    /\ pc' = "cancelled"
    /\ UNCHANGED <<runVars, faults_left, result, i, retry_count, callerVars>>

RunNext ==
    \/ LoopTop
    \/ Acquire
    \/ RequestOk
    \/ RequestQuota
    \/ RequestRateLimit
    \/ RequestError
    \/ Backoff
    \/ Progress
    \/ Yield
    \/ Cancel

\* A run of _process_embeddings_with_client on a fresh EmbeddingBatchResult
Init ==
    /\ \E n \in 1..MaxTexts : texts = [j \in 1..n |-> j]
    /\ batch_size \in (1..MaxBatchSize) \cup {DefaultBatchSize}
    /\ progress_callback \in BOOLEAN
    /\ result = EmptyResult
    /\ pc = "loop"
    /\ i = 0
    /\ retry_count = 0
    /\ held = 0
    /\ trace = <<>>
    /\ faults_left = MaxTexts * max_retries
    /\ cpc = "none"
    /\ use_new_provider_manager = TRUE
    /\ provider_manager = TRUE
    /\ client = "open"
    /\ ret = "none"
    /\ single = FALSE
    /\ single_out = "none"
    /\ PMIdle
    /\ ConcIdle
    /\ OtherIdle

Next == RunNext

Spec == Init /\ [][Next]_vars

\* ------------------------------------------ create_embeddings_batch
\* batch_index=None of add_failure
None == 0 - 1

CallerEvent(ev, outcome) == [ev |-> ev, batch |-> None, outcome |-> outcome, n |-> 0]

\* a catastrophic handler that starts from an empty result
CatastrophicReset(r) ==
    FailAll(EmptyResult, texts,
            [type |-> "EmbeddingAPIError", message |-> "Catastrophic failure"], None)

\* The except Exception handler of create_embeddings_batch: every text from
\* position success_count + failure_count on is marked failed.
Catastrophic(r) ==
    FailAll(r, SliceFrom(texts, r.success_count + r.failure_count),
            [type |-> "EmbeddingAPIError", message |-> "Catastrophic failure"], None)

\* Entry: the empty-input return, result = EmbeddingBatchResult(), and the
\* choice between the ProviderManager path and the old system.
Start ==
    /\ cpc = "start"
    /\ IF texts = <<>>
       THEN /\ ret' = "result"
            /\ cpc' = "done"
       ELSE IF use_new_provider_manager /\ provider_manager
       THEN /\ cpc' = "new_get_client"
            /\ ret' = ret
       ELSE IF ~use_new_provider_manager
       THEN /\ cpc' = "old_get_client"
            /\ ret' = ret
       ELSE \* neither branch is taken: the function ends without a return
            /\ ret' = "None"
            /\ cpc' = "done"
    /\ UNCHANGED <<runVars, faults_left, result, pc, i, retry_count, held, trace,
                   use_new_provider_manager, provider_manager, client>>

\* The fallback of the ProviderManager path: except Exception sets
\* use_new_provider_manager = False and the old system is entered.
FallBack ==
    /\ use_new_provider_manager' = FALSE
    /\ cpc' = "old_get_client"
    /\ pc' = "idle"

\* a failed get_client that is ignored instead of falling back
NewGetClientNoFallback ==
    /\ cpc = "new_get_client"
    /\ \E outcome \in {"ok", "config_error", "credential_missing"} :
        /\ trace' = Append(trace, CallerEvent("get_client", outcome))
        /\ client' = "open"
        /\ cpc' = "new_setup"
        /\ UNCHANGED <<use_new_provider_manager, pc>>
    /\ UNCHANGED <<runVars, faults_left, result, i, retry_count, held, provider_manager, ret>>

\* async with provider_manager.get_client('embeddings') as client
NewGetClient ==
    /\ cpc = "new_get_client"
    /\ \E outcome \in {"ok", "config_error", "credential_missing"} :
        /\ trace' = Append(trace, CallerEvent("get_client", outcome))
        /\ IF outcome = "ok"
           THEN /\ client' = "open"
                /\ cpc' = "new_setup"
                /\ UNCHANGED <<use_new_provider_manager, pc>>
           ELSE /\ FallBack
                /\ UNCHANGED client
    /\ UNCHANGED <<runVars, faults_left, result, i, retry_count, held, provider_manager, ret>>

\* get_model, get_embedding_dimensions, get_service_config, then the call of
\* _process_embeddings_with_client; get_embedding_dimensions may raise.
NewSetup ==
    /\ cpc = "new_setup"
    /\ \E raises \in BOOLEAN :
        IF raises
        THEN /\ client' = "closed"
             /\ trace' = Append(trace, CallerEvent("close", "-"))
             /\ FallBack
             /\ UNCHANGED <<i, retry_count>>
        ELSE /\ pc' = "loop"
             /\ i' = 0
             /\ retry_count' = 0
             /\ cpc' = "new_await"
             /\ UNCHANGED <<client, use_new_provider_manager, trace>>
    /\ UNCHANGED <<runVars, faults_left, result, held, provider_manager, ret>>

\* a scope exit that closes the client on normal completion only
NewExitLeak ==
    /\ cpc = "new_await"
    /\ pc \in {"returned", "raised"}
    /\ IF pc = "returned"
       THEN /\ client' = "closed"
            /\ trace' = Append(trace, CallerEvent("close", "-"))
            /\ ret' = "result"
            /\ cpc' = "done"
            /\ pc' = "idle"
            /\ UNCHANGED use_new_provider_manager
       ELSE /\ FallBack
            /\ UNCHANGED <<ret, client, trace>>
    /\ UNCHANGED <<runVars, faults_left, result, i, retry_count, held, provider_manager>>

\* The run has ended inside the async with of the ProviderManager path: the
\* client is closed, and the result is returned unless something raised.
NewExit ==
    /\ cpc = "new_await"
    /\ pc \in {"returned", "raised"}
    /\ client' = "closed"
    /\ \E close_raises \in BOOLEAN :
        /\ trace' = Append(trace, CallerEvent("close", IF close_raises THEN "raised" ELSE "-"))
        /\ IF pc = "returned" /\ ~close_raises
           THEN /\ ret' = "result"
                /\ cpc' = "done"
                /\ pc' = "idle"
                /\ UNCHANGED use_new_provider_manager
           ELSE /\ FallBack
                /\ UNCHANGED ret
    /\ UNCHANGED <<runVars, faults_left, result, i, retry_count, held, provider_manager>>

\* async with get_llm_client(...) as client, get_embedding_model, the
\* dimensions, then the call of _process_embeddings_with_client. A failure of
\* get_llm_client reaches the catastrophic handler.
OldGetClient ==
    /\ cpc = "old_get_client"
    /\ \E outcome \in {"ok", "credential_missing"} :
        /\ trace' = Append(trace, CallerEvent("get_llm_client", outcome))
        /\ IF outcome = "ok"
           THEN /\ client' = "open"
                /\ pc' = "loop"
                /\ i' = 0
                /\ retry_count' = 0
                /\ cpc' = "old_await"
                /\ UNCHANGED <<result, ret>>
           ELSE /\ result' = Catastrophic(result)
                /\ ret' = "result"
                /\ cpc' = "done"
                /\ UNCHANGED <<client, pc, i, retry_count>>
    /\ UNCHANGED <<runVars, faults_left, held, use_new_provider_manager, provider_manager>>

\* The run has ended inside the async with of the old system.
OldExit ==
    /\ cpc = "old_await"
    /\ pc \in {"returned", "raised"}
    /\ client' = "closed"
    /\ \E close_raises \in BOOLEAN :
        /\ trace' = Append(trace, CallerEvent("close", IF close_raises THEN "raised" ELSE "-"))
        /\ result' = IF pc = "returned" /\ ~close_raises THEN result
                     ELSE Catastrophic(result)
    /\ ret' = "result"
    /\ cpc' = "done"
    /\ pc' = "idle"
    /\ UNCHANGED <<runVars, faults_left, i, retry_count, held, use_new_provider_manager,
                   provider_manager>>

\* The run was cancelled inside one of the two async with scopes: the client
\* is closed by the finally of the context manager and CancelledError leaves
\* create_embeddings_batch, past both except Exception handlers.
CancelExit ==
    /\ cpc \in {"new_await", "old_await"}
    /\ pc = "cancelled"
    /\ client' = "closed"
    /\ trace' = Append(trace, CallerEvent("close", "-"))
    /\ ret' = "CancelledError"
    /\ cpc' = "done"
    /\ pc' = "idle"
    /\ UNCHANGED <<runVars, faults_left, result, i, retry_count, held,
                   use_new_provider_manager, provider_manager>>

\* "quota" in error_msg.lower() and "rate" in error_msg.lower(), for the
\* messages add_failure stores: "Quota exhausted", and the str() of the
\* provider's exception behind "Failed to create embedding: "
HasQuota(msg) == msg = "Quota exhausted"
HasRate(msg) == msg = "RateLimitError"

\* create_embedding: the way it ends for what create_embeddings_batch
\* returned. A None return makes result.embeddings raise AttributeError, which
\* the except Exception converts into EmbeddingAPIError.
CreateEmbeddingOutcome(rv, r) ==
    IF rv = "CancelledError" THEN "CancelledError"
    ELSE IF rv = "None" THEN "EmbeddingAPIError"
    ELSE IF r.embeddings # <<>> THEN "vector"
    ELSE IF r.failure_count > 0 /\ r.failed_items # <<>>
    THEN IF HasQuota(r.failed_items[1].error) THEN "EmbeddingQuotaExhaustedError"
         ELSE IF HasRate(r.failed_items[1].error) THEN "EmbeddingRateLimitError"
         ELSE "EmbeddingAPIError"
    ELSE "EmbeddingAPIError"

\* create_embedding(text) after its create_embeddings_batch([text], provider)
\* has returned or raised
CreateEmbeddingReturn ==
    /\ cpc = "done"
    /\ single
    /\ single_out = "none"
    /\ single_out' = CreateEmbeddingOutcome(ret, result)
    /\ UNCHANGED <<texts, batch_size, progress_callback, single, pmVars, concVars, otherVars,
                   faults_left,
                   result, pc, i, retry_count, held, trace, callerVars>>

\* The arguments create_embedding passes: one text, the provider, and the
\* defaults of everything else.
SingleCall ==
    /\ Len(texts) = 1
    /\ ~progress_callback
    /\ use_new_provider_manager
    /\ ~provider_manager

\* A call of create_embeddings_batch
InitBatch ==
    /\ \E n \in 0..MaxTexts : texts = [j \in 1..n |-> j]
    /\ batch_size \in (1..MaxBatchSize) \cup {DefaultBatchSize}
    /\ progress_callback \in BOOLEAN
    /\ result = EmptyResult
    /\ pc = "idle"
    /\ i = 0
    /\ retry_count = 0
    /\ held = 0
    /\ trace = <<>>
    /\ faults_left = MaxFaults
    /\ cpc = "start"
    /\ use_new_provider_manager \in BOOLEAN
    /\ provider_manager \in BOOLEAN
    /\ client = "none"
    /\ ret = "none"
    /\ single \in BOOLEAN
    /\ single => SingleCall
    /\ single_out = "none"
    /\ PMIdle
    /\ ConcIdle
    /\ OtherIdle

NextBatch ==
    \/ Start
    \/ NewGetClient
    \/ NewSetup
    \/ NewExit
    \/ OldGetClient
    \/ OldExit
    \/ CancelExit
    \/ CreateEmbeddingReturn
    \/ RunNext

SpecBatch == InitBatch /\ [][NextBatch]_vars

\* ------------------------------------------------ vocabulary of the claims
Last(s) == s[Len(s)]
NumBatches == (Len(texts) + batch_size - 1) \div batch_size
BatchIndices == 0..(NumBatches - 1)
TextsOfBatch(b) == {texts[j] : j \in {x \in 1..Len(texts) : (x - 1) \div batch_size = b}}
Requests(b) == SelectSeq(trace, LAMBDA e : e.ev = "request" /\ e.batch = b)
EventsOf(b) == SelectSeq(trace, LAMBDA e : e.ev \in {"request", "sleep"} /\ e.batch = b)
FailedTexts == {result.failed_items[j].text : j \in DOMAIN result.failed_items}
EmbeddedTexts == {result.texts_processed[j] : j \in DOMAIN result.texts_processed}
FullReply(e, b) == e.outcome = "ok" /\ e.n >= Cardinality(TextsOfBatch(b))
QuotaSignalled == \E p \in DOMAIN trace : trace[p].outcome = "quota"
\* the batch has left its try/except: the loop is past it or the run is over
BatchOver(b) == \/ pc \in {"returned", "raised"}
                \/ i > b * batch_size
                \/ (i = b * batch_size /\ pc \in {"progress", "yield"})

\* C1: for every non-empty input, when create_embeddings_batch returns it
\* returns a result whose success_count + failure_count is the number of
\* input texts.
C1_CountsAddUp ==
    (cpc = "done" /\ texts # <<>>) =>
        /\ ret = "result"
        /\ result.success_count + result.failure_count = Len(texts)

\* C2: an input recorded in failed_items is never represented in embeddings;
\* every vector of embeddings is the one the provider returned for its input,
\* and no zero vector stands in for a failed input.
C2_NoPlaceholder ==
    /\ FailedTexts \cap EmbeddedTexts = {}
    /\ Len(result.embeddings) = Len(result.texts_processed)
    /\ \A j \in DOMAIN result.embeddings :
        /\ result.embeddings[j] # ZeroVector
        /\ result.embeddings[j] = Embedding(result.texts_processed[j])
        /\ \E p \in DOMAIN trace :
            /\ trace[p].ev = "request" /\ trace[p].outcome = "ok"
            /\ result.texts_processed[j] \in TextsOfBatch(trace[p].batch)

C2_Witness ==
    /\ pc = "returned"
    /\ result.failure_count > 0
    /\ result.success_count > 0

\* C3: embeddings[i] is the vector of the i-th successful input in input
\* order, texts_processed[i] being that input; failed batches in between do
\* not shift or reorder later successes.
C3_SuccessOrder ==
    /\ Len(result.embeddings) = Len(result.texts_processed)
    /\ Len(result.embeddings) = result.success_count
    /\ \A j \in DOMAIN result.embeddings :
        result.embeddings[j] = Embedding(result.texts_processed[j])
    /\ \A j, k \in DOMAIN result.texts_processed :
        j < k => result.texts_processed[j] < result.texts_processed[k]

C3_Witness ==
    /\ pc = "returned"
    /\ result.texts_processed = <<1, 3>>
    /\ 2 \in FailedTexts

\* C4: once the provider signals quota exhaustion for a batch the run is
\* over: that request is the last call the run makes, the batch is not
\* re-issued and no later batch is requested.
C4_QuotaStops ==
    \A p \in DOMAIN trace :
        trace[p].outcome = "quota" => (p = Len(trace) /\ pc = "returned")

C4_Witness ==
    /\ pc = "returned"
    /\ trace # <<>>
    /\ Last(trace).outcome = "quota"
    /\ Last(trace).batch > 0
    /\ Last(trace).batch < NumBatches - 1

\* C5: the step on which quota exhaustion is signalled at batch k appends one
\* EmbeddingQuotaExhaustedError failure for every input of batch k and of all
\* later batches, and leaves what was recorded before untouched.
C5_QuotaFailsRemaining ==
    [][(trace' # trace /\ Last(trace').outcome = "quota") =>
        LET k == Last(trace').batch
            old == Len(result.failed_items)
            rest == {texts[j] : j \in (k * batch_size + 1)..Len(texts)}
        IN  /\ result'.embeddings = result.embeddings
            /\ result'.texts_processed = result.texts_processed
            /\ result'.success_count = result.success_count
            /\ SubSeq(result'.failed_items, 1, old) = result.failed_items
            /\ Len(result'.failed_items) = old + Cardinality(rest)
            /\ result'.failure_count = result.failure_count + Cardinality(rest)
            /\ \A t \in rest : \E j \in (old + 1)..Len(result'.failed_items) :
                /\ result'.failed_items[j].text = t
                /\ result'.failed_items[j].error_type = "EmbeddingQuotaExhaustedError"
            /\ \A j \in (old + 1)..Len(result'.failed_items) :
                result'.failed_items[j].text \in rest
    ]_vars

C5_Witness ==
    /\ pc = "returned"
    /\ trace # <<>>
    /\ Last(trace).outcome = "quota"
    /\ Last(trace).batch = 1
    /\ NumBatches = 3
    /\ result.success_count + result.failure_count = Len(texts)
    /\ \E j \in DOMAIN result.failed_items :
        result.failed_items[j].error_type = "EmbeddingQuotaExhaustedError"

\* C6: a batch whose request is rate limited (not quota) on attempts 1 and 2
\* and answered in full on attempt 3 sleeps 2 s and then 4 s between the
\* attempts, and all of its items are successes, none a failure.
C6_RetryThenSuccess ==
    \A b \in BatchIndices :
        LET rq == Requests(b)
            ev == EventsOf(b)
        IN  (/\ Len(rq) >= 3
             /\ rq[1].outcome = "rate_limit"
             /\ rq[2].outcome = "rate_limit"
             /\ FullReply(rq[3], b)) =>
                /\ Len(ev) = 5
                /\ ev[2].ev = "sleep" /\ ev[2].n = 2
                /\ ev[4].ev = "sleep" /\ ev[4].n = 4
                /\ ev[1].ev = "request" /\ ev[3].ev = "request" /\ ev[5].ev = "request"
                /\ TextsOfBatch(b) \subseteq EmbeddedTexts
                /\ TextsOfBatch(b) \cap FailedTexts = {}

C6_Witness ==
    /\ pc = "returned"
    /\ \E b \in BatchIndices :
        /\ Len(Requests(b)) = 3
        /\ Requests(b)[1].outcome = "rate_limit"
        /\ Requests(b)[2].outcome = "rate_limit"
        /\ FullReply(Requests(b)[3], b)
        /\ Cardinality(TextsOfBatch(b)) = 2

\* C7: a batch that keeps being rate limited (not quota) is re-issued three
\* times after the initial request, after sleeps of 2, 4 and 8 seconds, before
\* it is given up on, and no batch is ever re-issued more often.
C7_ThreeRetries ==
    \A b \in BatchIndices :
        LET rq == Requests(b)
            ev == EventsOf(b)
        IN  /\ Len(rq) <= 1 + max_retries
            /\ (/\ BatchOver(b)
                /\ rq # <<>>
                /\ \A q \in DOMAIN rq : rq[q].outcome = "rate_limit") =>
                    /\ Len(rq) = 1 + max_retries
                    /\ \A q \in 1..max_retries :
                        ev[2 * q].ev = "sleep" /\ ev[2 * q].n = 2 ^ q

\* C8: once the rate-limit retries of a batch are used up, every item of the
\* batch is in failed_items with the rate-limited kind, which is not the kind
\* a generic API or transport failure is recorded with.
C8_RateLimitedKind ==
    \A b \in BatchIndices :
        (/\ BatchOver(b)
         /\ Requests(b) # <<>>
         /\ Last(Requests(b)).outcome = "rate_limit") =>
            \A t \in TextsOfBatch(b) : \E j \in DOMAIN result.failed_items :
                /\ result.failed_items[j].text = t
                /\ result.failed_items[j].error_type = "EmbeddingRateLimitError"
                /\ result.failed_items[j].error_type # BatchError("APIConnectionError").type

\* C9: a batch failing with anything but quota exhaustion does not end the
\* run: a run that returns without a quota signal has requested every batch,
\* recorded every fully answered batch as successes, and marked failed only
\* the items of the batches whose last request failed.
C9_FailureIsolated ==
    (pc = "returned" /\ ~QuotaSignalled) =>
        /\ \A b \in BatchIndices : Requests(b) # <<>>
        /\ \A b \in BatchIndices :
            FullReply(Last(Requests(b)), b) =>
                /\ TextsOfBatch(b) \subseteq EmbeddedTexts
                /\ TextsOfBatch(b) \cap FailedTexts = {}
        /\ \A j \in DOMAIN result.failed_items :
            LET f == result.failed_items[j]
            IN  /\ f.batch_index \in BatchIndices
                /\ f.text \in TextsOfBatch(f.batch_index)
                /\ Last(Requests(f.batch_index)).outcome \in {"rate_limit", "timeout", "error"}

C9_Witness ==
    /\ pc = "returned"
    /\ ~QuotaSignalled
    /\ NumBatches = 3
    /\ Last(Requests(0)).outcome = "rate_limit"
    /\ Last(Requests(1)).outcome = "error"
    /\ FullReply(Last(Requests(2)), 2)
    /\ result.texts_processed = <<3>>

\* C10 as stated: a request that times out is retried like a rate-limited
\* one, the batch being re-issued as long as the retry limit allows, and the
\* quota early exit is not taken.
C10_TimeoutRetried ==
    /\ \A b \in BatchIndices : \A q \in DOMAIN Requests(b) :
        (/\ Requests(b)[q].outcome = "timeout"
         /\ q < max_retries
         /\ BatchOver(b)) => Len(Requests(b)) > q
    /\ \A j \in DOMAIN result.failed_items :
        result.failed_items[j].error = "APITimeoutError" =>
            result.failed_items[j].error_type # "EmbeddingQuotaExhaustedError"

\* C10 amended: a request that times out is not retried. No further request
\* or backoff sleep is made for its batch, every item of the batch is recorded
\* as failed with EmbeddingAPIError, none with the quota kind, and the run goes
\* on to the later batches instead of taking the quota early exit.
C10_TimeoutNotRetried ==
    \A p \in DOMAIN trace :
        trace[p].outcome = "timeout" =>
            LET b == trace[p].batch
            IN  /\ \A q \in DOMAIN trace :
                    (q > p /\ trace[q].ev \in {"request", "sleep"}) => trace[q].batch > b
                /\ \A t \in TextsOfBatch(b) : \E j \in DOMAIN result.failed_items :
                    /\ result.failed_items[j].text = t
                    /\ result.failed_items[j].batch_index = b
                    /\ result.failed_items[j].error_type = "EmbeddingAPIError"
                    /\ result.failed_items[j].error = "APITimeoutError"
                /\ \A j \in DOMAIN result.failed_items :
                    result.failed_items[j].batch_index = b =>
                        result.failed_items[j].error_type # "EmbeddingQuotaExhaustedError"
                /\ (pc = "returned" /\ ~QuotaSignalled) =>
                    \A b2 \in BatchIndices : b2 > b => Requests(b2) # <<>>

C10_Witness ==
    /\ pc = "returned"
    /\ NumBatches >= 2
    /\ Len(Requests(0)) = 1
    /\ Requests(0)[1].outcome = "timeout"
    /\ FullReply(Last(Requests(1)), 1)
    /\ 1 \in FailedTexts

Cancelled == \E p \in DOMAIN trace : trace[p].ev = "cancel"
\* the cancellation arrived after a batch was recorded and before the next one
CancelledBetweenBatches ==
    \E p \in DOMAIN trace :
        trace[p].ev = "cancel" /\ trace[p].outcome \in {"progress", "yield"}

\* C11: a call cancelled between batches returns a result that holds the
\* outcomes recorded so far and marks every remaining input failed with a
\* Cancelled kind, so that every input has an outcome.
C11_CancelledResult ==
    (cpc = "done" /\ CancelledBetweenBatches) =>
        /\ ret = "result"
        /\ \A j \in DOMAIN texts :
            \/ texts[j] \in EmbeddedTexts
            \/ \E f \in DOMAIN result.failed_items : result.failed_items[f].text = texts[j]
        /\ \A j \in DOMAIN texts :
            j > i + batch_size => \E f \in DOMAIN result.failed_items :
                /\ result.failed_items[f].text = texts[j]
                /\ result.failed_items[f].error_type = "Cancelled"

ResolutionFailed(e) ==
    /\ e.ev \in {"get_client", "get_llm_client"}
    /\ e.outcome \in {"config_error", "credential_missing"}

FailedBatchAt(p) ==
    /\ trace[p].ev = "request"
    /\ \/ trace[p].outcome \in {"timeout", "error"}
       \/ /\ trace[p].outcome = "rate_limit"
          /\ p >= 2 * max_retries - 1
          /\ \A r \in 1..(max_retries - 1) : trace[p - 2 * r + 1].ev = "sleep"

\* C13: a call in which batches failed at the provider still returns a result
\* (it raises only when it is cancelled); the items of every failed batch are
\* in failed_items, and every vector a reply delivered is in embeddings.
C13_FailuresCaptured ==
    (/\ cpc = "done"
     /\ ~Cancelled
     /\ \E p \in DOMAIN trace : FailedBatchAt(p) \/ trace[p].outcome = "quota") =>
        /\ ret = "result"
        /\ \A p \in DOMAIN trace :
            /\ FailedBatchAt(p) => TextsOfBatch(trace[p].batch) \subseteq FailedTexts
            /\ trace[p].outcome = "quota" =>
                \A b \in BatchIndices :
                    b >= trace[p].batch => TextsOfBatch(b) \subseteq FailedTexts
            /\ (trace[p].ev = "request" /\ trace[p].outcome = "ok") =>
                \A j \in 1..Min(trace[p].n, Cardinality(TextsOfBatch(trace[p].batch))) :
                    LET t == texts[trace[p].batch * batch_size + j]
                    IN  \E e \in DOMAIN result.embeddings :
                            /\ result.texts_processed[e] = t
                            /\ result.embeddings[e] = Embedding(t)

C13_Witness ==
    /\ cpc = "done"
    /\ ~Cancelled
    /\ ret = "result"
    /\ \E p \in DOMAIN trace : FailedBatchAt(p)
    /\ result.success_count > 0
    /\ \E f \in DOMAIN result.failed_items :
        result.failed_items[f].error = "Catastrophic failure"

Opens ==
    Cardinality({p \in DOMAIN trace :
        trace[p].ev \in {"get_client", "get_llm_client"} /\ trace[p].outcome = "ok"})
Closes == Cardinality({p \in DOMAIN trace : trace[p].ev = "close"})

\* C16: every client created by get_client or get_llm_client is closed when
\* its scope is left, however it is left: a client is open only while the
\* call is inside its scope, each created client has been closed once the
\* scope is behind, and none is open when the call is over.
C16_ClientsClosed ==
    /\ client = "open" <=> Opens = Closes + 1
    /\ client # "open" <=> Opens = Closes
    /\ client = "open" => cpc \in {"new_setup", "new_await", "old_await"}
    /\ cpc = "done" => client # "open"

C16_Witness ==
    /\ cpc = "done"
    /\ Closes = 2
    /\ QuotaSignalled
    /\ \E p \in DOMAIN trace : trace[p].ev = "progress" /\ trace[p].outcome = "raised"

\* C18: the rate-limiter scope of a batch is entered before the batch's first
\* request and is left when the batch's operation ends, however it ends: the
\* run holds exactly one scope while it is requesting or backing off, and
\* none anywhere else.
C18_LimiterScoped ==
    /\ held \in {0, 1}
    /\ held = 1 <=> pc \in {"request", "sleep"}

C18_Witness ==
    /\ pc = "returned"
    /\ held = 0
    /\ QuotaSignalled
    /\ \E p \in DOMAIN trace : FailedBatchAt(p) /\ trace[p].outcome = "error"
    /\ \E p \in DOMAIN trace : FailedBatchAt(p) /\ trace[p].outcome = "rate_limit"

\* C20: create_embedding returns the vector of its text, or raises the error
\* that mirrors how the one-item batch run failed: the quota error after a
\* quota signal, the rate-limit error after exhausted rate-limit retries, and
\* EmbeddingAPIError after any other failure.
C20_SingleMirrorsFailure ==
    single_out # "none" =>
        \/ /\ single_out = "vector"
           /\ result.embeddings # <<>>
           /\ result.embeddings[1] = Embedding(texts[1])
        \/ /\ single_out = "EmbeddingQuotaExhaustedError"
           /\ QuotaSignalled
        \/ /\ single_out = "EmbeddingRateLimitError"
           /\ \E p \in DOMAIN trace : FailedBatchAt(p) /\ trace[p].outcome = "rate_limit"
        \/ /\ single_out = "EmbeddingAPIError"
           /\ \E p \in DOMAIN trace :
                \/ FailedBatchAt(p) /\ trace[p].outcome \in {"timeout", "error"}
                \/ ResolutionFailed(trace[p])
                \/ trace[p].ev = "request" /\ trace[p].outcome = "ok" /\ trace[p].n = 0
                \/ trace[p].outcome = "raised"

\* ------------------------------------------------ resolvers and factories
\* services/provider_manager.py, services/llm_provider_service.py and
\* providers_clean/services/model_config.py

\* calls made on one ProviderManager
MaxCalls == 3
\* the clock advances in steps of half the cache lifetime, MaxTicks times
MaxTicks == 3

_cache_ttl == 300
_CACHE_TTL_SECONDS == 300
TickStep == _cache_ttl \div 2

embedVars ==
    <<texts, batch_size, progress_callback, singleVars, result, pc, i, retry_count,
      held, trace, faults_left, callerVars, concVars, otherVars>>

\* Rows the model_config table may hold
ModelStrings ==
    {[provider |-> "google", model |-> "text-embedding-004"],
     [provider |-> "ollama", model |-> "nomic-embed-text"],
     [provider |-> "", model |-> "text-embedding-3-small"]}

\* provider, model = model_string.split(':', 1), or 'openai' without a colon
ParseModelString(ms) ==
    IF ms.provider # ""
    THEN [provider |-> ms.provider, model |-> ms.model]
    ELSE [provider |-> "openai", model |-> ms.model]

\* cache[key] = (value, time.time())
CachePut(cache, key, value) ==
    [k \in DOMAIN cache \cup {key} |->
        IF k = key THEN [value |-> value, timestamp |-> now] ELSE cache[k]]

PMEvent(op, service, queried, ok) ==
    [op |-> op, service |-> service, time |-> now, queried |-> queried, ok |-> ok]

\* a cache check that ignores the age of the entry
CacheHitNoExpiry(service) ==
    service \in DOMAIN _config_cache

\* get_service_config: the cache check
CacheHit(service) ==
    /\ service \in DOMAIN _config_cache
    /\ now - _config_cache[service].timestamp < _cache_ttl

\* get_service_config(service): whether the table was queried, whether a
\* config was returned, the config, and the cache afterwards. db_ok is FALSE
\* when the query itself raises.
ServiceConfig(service, db_ok) ==
    IF CacheHit(service)
    THEN [queried |-> FALSE, ok |-> TRUE, config |-> _config_cache[service].value,
          cache |-> _config_cache]
    ELSE IF db_ok /\ store[service] # NoEntry
    THEN [queried |-> TRUE, ok |-> TRUE, config |-> ParseModelString(store[service]),
          cache |-> CachePut(_config_cache, service, ParseModelString(store[service]))]
    ELSE [queried |-> TRUE, ok |-> FALSE, config |-> NoEntry, cache |-> _config_cache]

\* ProviderManager.get_service_config
GetServiceConfig(service) ==
    /\ Len(pmlog) < MaxCalls
    /\ \E db_ok \in BOOLEAN :
        LET g == ServiceConfig(service, db_ok) IN
        /\ pmlog' = Append(pmlog, PMEvent("get_service_config", service, g.queried, g.ok))
        /\ _config_cache' = g.cache
    /\ UNCHANGED <<store, now, _settings_cache, answer, embedVars>>

\* ProviderManager.clear_cache
ClearCache ==
    /\ Len(pmlog) < MaxCalls
    /\ _config_cache' = EmptyCache
    /\ pmlog' = Append(pmlog, PMEvent("clear_cache", "-", FALSE, TRUE))
    /\ UNCHANGED <<store, now, _settings_cache, answer, embedVars>>

\* time passes
Tick ==
    /\ now < MaxTicks * TickStep
    /\ now' = now + TickStep
    /\ UNCHANGED <<store, _config_cache, _settings_cache, pmlog, answer, embedVars>>

\* api keys: "" is no key (None, or an empty string, both falsy)
NoKey == ""
EnvKeys == {NoKey, "sk-env"}
DbKeys == {NoKey, "sk-db"}

\* the providers of env_key_map
EnvProviders ==
    {"openai", "google", "gemini", "anthropic", "mistral", "groq", "deepseek",
     "openrouter"}

\* ProviderManager.get_api_key: the environment first, then the api_keys table
get_api_key(provider, env, db) ==
    IF provider \in EnvProviders /\ env # NoKey THEN env ELSE db

Client(api_key) == [outcome |-> "client", detail |-> "-", api_key |-> api_key]
Raised(detail) == [outcome |-> "ValueError", detail |-> detail, api_key |-> "-"]

\* a factory that hands the stored key to every provider
ClientForStoredKey(provider, api_key) ==
    IF api_key = NoKey
    THEN Raised("API key not configured")
    ELSE Client(api_key)

\* ProviderManager.get_client after the config is known
ClientFor(provider, api_key) ==
    IF api_key = NoKey /\ provider # "ollama"
    THEN Raised("API key not configured")
    ELSE IF provider = "ollama"
    THEN Client("not-needed")
    ELSE Client(api_key)

Answer(fn, arg, provider, found, c) ==
    [fn |-> fn, arg |-> arg, provider |-> provider, found |-> found,
     outcome |-> c.outcome, detail |-> c.detail, api_key |-> c.api_key]

\* ProviderManager.get_client(service), up to the yield of the client
GetClient(service) ==
    /\ Len(pmlog) < MaxCalls
    /\ \E db_ok \in BOOLEAN, env \in EnvKeys, db \in DbKeys :
        LET g == ServiceConfig(service, db_ok)
            api_key == get_api_key(g.config.provider, env, db)
        IN
        /\ pmlog' = Append(pmlog, PMEvent("get_client", service, g.queried, g.ok))
        /\ _config_cache' = g.cache
        /\ answer' =
             IF g.ok
             THEN Answer("get_client", service, g.config.provider, api_key # NoKey,
                         ClientFor(g.config.provider, api_key))
             ELSE Answer("get_client", service, "-", FALSE,
                         Raised("Failed to load model configuration"))
    /\ UNCHANGED <<store, now, _settings_cache, embedVars>>

\* provider names handed to the old-system functions; "" is provider=None
NoProvider == ""
LlmProviders == {"openai", "ollama", "google", "anthropic"}
NoModel == ""
CustomModels == {NoModel, "custom-embed"}

\* what the credential store may hold under the two cached keys
RagSettings == [provider : {"-"}, api_key : {"-"}, custom_model : CustomModels]
ProviderConfigs ==
    [provider : {"openai", "ollama", "anthropic"}, api_key : DbKeys,
     custom_model : CustomModels]

\* _get_cached_settings(key) is not None
Cached(key) ==
    /\ key \in DOMAIN _settings_cache
    /\ now - _settings_cache[key].timestamp < _CACHE_TTL_SECONDS

\* the cache key and the readings of the credential store for a call with or
\* without an explicit provider
SettingsKey(provider) ==
    IF provider # NoProvider THEN "rag_strategy_settings" ELSE "provider_config_embedding"
SettingsChoices(provider) ==
    IF provider # NoProvider THEN RagSettings ELSE ProviderConfigs

\* v is the settings value the call works with: the cached one, or one read
\* from the credential store, which is then cached
ReadSettings(provider, v) ==
    /\ IF Cached(SettingsKey(provider))
       THEN /\ v = _settings_cache[SettingsKey(provider)].value
            /\ _settings_cache' = _settings_cache
       ELSE /\ v \in SettingsChoices(provider)
            /\ _settings_cache' = CachePut(_settings_cache, SettingsKey(provider), v)

\* get_llm_client: the branch on provider_name
LlmClientFor(provider_name, api_key) ==
    IF provider_name = "openai"
    THEN IF api_key = NoKey THEN Raised("OpenAI API key not found") ELSE Client(api_key)
    ELSE IF provider_name = "ollama"
    THEN Client("not-needed")
    ELSE IF provider_name \in {"google", "gemini"}
    THEN IF api_key = NoKey THEN Raised("Google API key not found") ELSE Client(api_key)
    ELSE Raised("Unsupported provider")

\* get_llm_client(provider, use_embedding_provider=True), legacy credential
\* service, up to the yield of the client. key is what _get_provider_api_key
\* returns for an explicit provider.
GetLlmClient(provider) ==
    /\ \E v \in RagSettings \cup ProviderConfigs, key \in DbKeys :
        /\ ReadSettings(provider, v)
        /\ LET provider_name == IF provider # NoProvider THEN provider ELSE v.provider
               api_key == IF provider # NoProvider THEN key ELSE v.api_key
           IN answer' = Answer("get_llm_client", provider, provider_name,
                               api_key # NoKey, LlmClientFor(provider_name, api_key))
    /\ UNCHANGED <<store, now, _config_cache, pmlog, embedVars>>

\* get_embedding_model: the branch on provider_name, "x or default"
EmbeddingModelFor(provider_name, custom_model) ==
    IF provider_name = "openai"
    THEN IF custom_model # NoModel THEN custom_model ELSE "text-embedding-3-small"
    ELSE IF provider_name = "ollama"
    THEN IF custom_model # NoModel THEN custom_model ELSE "nomic-embed-text"
    ELSE IF provider_name \in {"google", "gemini"}
    THEN IF custom_model # NoModel THEN custom_model ELSE "text-embedding-004"
    ELSE "text-embedding-3-small"

\* get_embedding_model(provider), legacy system. raises: the credential store
\* cannot be read, which the except Exception answers with the default model.
GetEmbeddingModel(provider) ==
    /\ \E raises \in BOOLEAN :
        IF raises /\ ~Cached(SettingsKey(provider))
        THEN /\ answer' = Answer("get_embedding_model", provider, "-", FALSE,
                                 [outcome |-> "text-embedding-3-small", detail |-> "-",
                                  api_key |-> "-"])
             /\ _settings_cache' = _settings_cache
        ELSE \E v \in RagSettings \cup ProviderConfigs :
             /\ ReadSettings(provider, v)
             /\ LET provider_name == IF provider # NoProvider THEN provider ELSE v.provider
                IN answer' = Answer("get_embedding_model", provider, provider_name,
                                    v.custom_model # NoModel,
                                    [outcome |-> EmbeddingModelFor(provider_name, v.custom_model),
                                     detail |-> "-", api_key |-> "-"])
    /\ UNCHANGED <<store, now, _config_cache, pmlog, embedVars>>

\* ModelConfigService.DEFAULT_MODELS.get(service_name, 'openai:gpt-4o-mini')
DefaultModel(service_name) ==
    IF service_name = "embeddings"
    THEN [provider |-> "openai", model |-> "text-embedding-3-small"]
    ELSE [provider |-> "openai", model |-> "gpt-4o-mini"]

\* ModelConfigService.get_model_config(service_name); db_ok is FALSE when the
\* query raises
GetModelConfig(service_name) ==
    /\ \E db_ok \in BOOLEAN :
        LET found == db_ok /\ store[service_name] # NoEntry
            ms == IF found THEN store[service_name] ELSE DefaultModel(service_name)
        IN answer' = Answer("get_model_config", service_name, ms.provider,
                            store[service_name] # NoEntry,
                            [outcome |-> ms.model, detail |-> "-", api_key |-> "-"])
    /\ UNCHANGED <<store, now, _config_cache, _settings_cache, pmlog, embedVars>>

\* No run of the embedding pipeline is going on
EmbedIdle ==
    /\ texts = <<>>
    /\ batch_size = DefaultBatchSize
    /\ progress_callback = FALSE
    /\ result = EmptyResult
    /\ pc = "idle"
    /\ i = 0
    /\ retry_count = 0
    /\ held = 0
    /\ trace = <<>>
    /\ faults_left = 0
    /\ cpc = "none"
    /\ use_new_provider_manager = TRUE
    /\ provider_manager = TRUE
    /\ client = "none"
    /\ ret = "none"
    /\ single = FALSE
    /\ single_out = "none"
    /\ ConcIdle

\* A fresh ProviderManager over some contents of the model_config table
InitPM ==
    /\ EmbedIdle
    /\ OtherIdle
    /\ store \in [Services -> ModelStrings \cup {NoEntry}]
    /\ now = 0
    /\ _config_cache = EmptyCache
    /\ _settings_cache = EmptyCache
    /\ pmlog = <<>>
    /\ answer = NoAnswer

NextPM ==
    \/ \E service \in Services : GetServiceConfig(service)
    \/ ClearCache
    \/ Tick

SpecPM == InitPM /\ [][NextPM]_vars

\* The resolvers and client factories applied to the contents of the stores
NextResolve ==
    \/ GetClient("embeddings")
    \/ \E provider \in LlmProviders \cup {NoProvider} : GetLlmClient(provider)
    \/ \E provider \in LlmProviders \cup {NoProvider} : GetEmbeddingModel(provider)
    \/ \E service_name \in Services : GetModelConfig(service_name)

SpecResolve == InitPM /\ [][NextResolve]_vars

\* ------------------------------------------------ claims on the resolvers
IsGet(e) == e.op \in {"get_service_config", "get_client"}

\* C14: resolving the model of a service that has no entry in the Config Store
\* fails with a configuration error on every resolver path: the
\* ProviderManager, get_embedding_model and get_model_config; none of them
\* answers with a hardcoded default model.
C14_NoSilentDefault ==
    /\ \A p \in DOMAIN pmlog :
        (IsGet(pmlog[p]) /\ pmlog[p].queried /\ store[pmlog[p].service] = NoEntry)
            => ~pmlog[p].ok
    /\ (answer.fn \in {"get_embedding_model", "get_model_config"} /\ ~answer.found)
            => answer.outcome = "ValueError"

\* pmlog[p] is a get that has, less than the TTL before it, a get of the same
\* service that queried the store successfully, with no clear_cache in between
Fresh(p) ==
    \E q \in 1..(p - 1) :
        /\ IsGet(pmlog[q])
        /\ pmlog[q].service = pmlog[p].service
        /\ pmlog[q].queried /\ pmlog[q].ok
        /\ pmlog[p].time - pmlog[q].time < 300
        /\ \A k \in (q + 1)..(p - 1) : pmlog[k].op # "clear_cache"

\* C15: a get_service_config call that follows, less than 300 s later and with
\* no clear_cache in between, a successful store query for the same service
\* issues no store query; every other call (first call, TTL expired, cache
\* cleared, earlier query failed) issues one.
C15_OneQueryPerTtl ==
    \A p \in DOMAIN pmlog :
        IsGet(pmlog[p]) => (pmlog[p].queried <=> ~Fresh(p))

C15_Witness ==
    /\ Len(pmlog) = 3
    /\ \A p \in 1..3 : pmlog[p].op = "get_service_config" /\ pmlog[p].service = "embeddings"
    /\ pmlog[1].queried /\ pmlog[1].ok /\ pmlog[1].time = 0
    /\ ~pmlog[2].queried /\ pmlog[2].time = 150
    /\ pmlog[3].queried /\ pmlog[3].time = 300

\* the same for clear_cache: a query, a clear, and a new query at once
C15_WitnessClear ==
    /\ Len(pmlog) = 3
    /\ pmlog[1].op = "get_service_config" /\ pmlog[1].queried /\ pmlog[1].ok
    /\ pmlog[2].op = "clear_cache"
    /\ pmlog[3].op = "get_service_config" /\ pmlog[3].service = pmlog[1].service
    /\ pmlog[3].queried /\ pmlog[3].time = pmlog[1].time

CredentialMissing ==
    {"API key not configured", "OpenAI API key not found", "Google API key not found"}

\* C17: a client for ollama is created without any stored credential, with
\* the secret 'not-needed'; for every other provider a missing credential
\* makes the creation fail, with a credential-missing error wherever the
\* factory knows the provider.
C17_SecretOrSentinel ==
    (answer.fn \in {"get_client", "get_llm_client"} /\ answer.provider # "-") =>
        /\ answer.provider = "ollama" =>
              answer.outcome = "client" /\ answer.api_key = "not-needed"
        /\ (answer.provider # "ollama" /\ ~answer.found) =>
              /\ answer.outcome = "ValueError"
              /\ \/ answer.detail \in CredentialMissing
                 \/ /\ answer.detail = "Unsupported provider"
                    /\ answer.fn = "get_llm_client"
                    /\ answer.provider \notin {"openai", "google", "gemini"}

C17_Witness ==
    /\ answer.fn = "get_client"
    /\ answer.provider = "ollama"
    /\ ~answer.found
    /\ answer.outcome = "client"
    /\ answer.arg = "embeddings"

C17_WitnessMissing ==
    /\ answer.fn = "get_llm_client"
    /\ answer.provider = "openai"
    /\ ~answer.found
    /\ answer.detail = "OpenAI API key not found"

\* ------------------------------------------------------- concurrent calls
\* Two tasks of one process inside create_embeddings_batch on the old-system
\* path. A task gives way to the other at its awaits only: reading the
\* provider settings, and each embeddings request.

\* texts of one concurrent call
MaxRunTexts == 2

\* the input list of run r: n texts of its own
RunTexts(r, n) == [j \in 1..n |-> 100 * r + j]

concFrame ==
    <<texts, progress_callback, singleVars, result, pc, i, retry_count, held, trace,
      callerVars, batch_size, store, now, _config_cache, pmlog, answer, otherVars>>

\* one result object for all calls instead of one per call
ConcStartShared(r) ==
    /\ runs[r].pc = "start"
    /\ heap' = IF heap = <<>> THEN <<EmptyResult>> ELSE heap
    /\ runs' = [runs EXCEPT ![r].result = 1, ![r].pc = "get_client"]
    /\ UNCHANGED <<clients, in_flight, fetched, faults_left, _settings_cache, concFrame>>

\* result = EmbeddingBatchResult(): a new object for this call
ConcStart(r) ==
    /\ runs[r].pc = "start"
    /\ heap' = Append(heap, EmptyResult)
    /\ runs' = [runs EXCEPT ![r].result = Len(heap) + 1, ![r].pc = "get_client"]
    /\ UNCHANGED <<clients, in_flight, fetched, faults_left, _settings_cache, concFrame>>

\* The rest of get_llm_client once the provider settings v are known: a new
\* client for this call, or the ValueError that the catastrophic handler of
\* create_embeddings_batch turns into failures of all texts.
ConcOpen(r, v) ==
    IF LlmClientFor(v.provider, v.api_key).outcome = "client"
    THEN /\ clients' = Append(clients, [state |-> "open", users |-> {}])
         /\ runs' = [runs EXCEPT ![r].client = Len(clients) + 1, ![r].pc = "loop"]
         /\ UNCHANGED heap
    ELSE /\ heap' = [heap EXCEPT ![runs[r].result] =
                        FailAll(@, SliceFrom(runs[r].texts, @.success_count + @.failure_count),
                                [type |-> "EmbeddingAPIError",
                                 message |-> "Catastrophic failure"], None)]
         /\ runs' = [runs EXCEPT ![r].pc = "done"]
         /\ UNCHANGED clients

\* get_llm_client(provider=None, use_embedding_provider=True): the settings
\* cache is looked up; on a hit the cached settings are used, on a miss the
\* task awaits the credential store.
ConcGetClient(r) ==
    /\ runs[r].pc = "get_client"
    /\ IF Cached(SettingsKey(NoProvider))
       THEN ConcOpen(r, _settings_cache[SettingsKey(NoProvider)].value)
       ELSE /\ runs' = [runs EXCEPT ![r].pc = "fetch"]
            /\ UNCHANGED <<heap, clients>>
    /\ UNCHANGED <<in_flight, fetched, faults_left, _settings_cache, concFrame>>

\* The credential store has answered: _set_cached_settings, then the client
ConcFetched(r) ==
    /\ runs[r].pc = "fetch"
    /\ \E v \in ProviderConfigs :
        /\ _settings_cache' = CachePut(_settings_cache, SettingsKey(NoProvider), v)
        /\ ConcOpen(r, v)
    /\ fetched' = fetched \cup {r}
    /\ UNCHANGED <<in_flight, faults_left, concFrame>>

\* The for loop of the run: the next batch enters the rate limiter, or the
\* run returns to the async with
ConcLoopTop(r) ==
    /\ runs[r].pc = "loop"
    /\ IF runs[r].i < Len(runs[r].texts)
       THEN /\ runs' = [runs EXCEPT ![r].pc = "request", ![r].retry_count = 0]
            /\ in_flight' = in_flight + 1
       ELSE /\ runs' = [runs EXCEPT ![r].pc = "exit"]
            /\ UNCHANGED in_flight
    /\ UNCHANGED <<heap, clients, fetched, faults_left, _settings_cache, concFrame>>

ConcBatch(r) == Slice(runs[r].texts, runs[r].i, runs[r].i + batch_size)
ConcBatchIndex(r) == runs[r].i \div batch_size

\* One embeddings request of run r through its client, and what the run does
\* with the outcome
ConcRequest(r) ==
    /\ runs[r].pc = "request"
    /\ clients' = [clients EXCEPT ![runs[r].client].users = @ \cup {r}]
    /\ \E outcome \in {"ok", "error", "quota", "rate_limit"} :
        /\ IF outcome = "ok" THEN UNCHANGED faults_left ELSE Fault
        /\ IF outcome = "ok"
           THEN /\ heap' = [heap EXCEPT ![runs[r].result] =
                               ZipSuccess(@, ConcBatch(r),
                                          ResponseData(ConcBatch(r), Len(ConcBatch(r))))]
                /\ runs' = [runs EXCEPT ![r].pc = "loop", ![r].i = @ + batch_size]
                /\ in_flight' = in_flight - 1
           ELSE IF outcome = "quota"
           THEN /\ heap' = [heap EXCEPT ![runs[r].result] =
                               FailAll(@, SliceFrom(runs[r].texts, runs[r].i), QuotaError,
                                       ConcBatchIndex(r))]
                /\ runs' = [runs EXCEPT ![r].pc = "exit"]
                /\ in_flight' = in_flight - 1
           ELSE IF outcome = "rate_limit" /\ runs[r].retry_count + 1 < max_retries
           THEN /\ runs' = [runs EXCEPT ![r].retry_count = @ + 1]
                /\ UNCHANGED <<heap, in_flight>>
           ELSE /\ heap' = [heap EXCEPT ![runs[r].result] =
                               FailAll(@, ConcBatch(r),
                                       BatchError(IF outcome = "error"
                                                  THEN "APIConnectionError"
                                                  ELSE "RateLimitError"),
                                       ConcBatchIndex(r))]
                /\ runs' = [runs EXCEPT ![r].pc = "loop", ![r].i = @ + batch_size]
                /\ in_flight' = in_flight - 1
    /\ UNCHANGED <<fetched, _settings_cache, concFrame>>

\* leaving async with get_llm_client: the client of this call is closed
ConcExit(r) ==
    /\ runs[r].pc = "exit"
    /\ clients' = [clients EXCEPT ![runs[r].client].state = "closed"]
    /\ runs' = [runs EXCEPT ![r].pc = "done"]
    /\ UNCHANGED <<heap, in_flight, fetched, faults_left, _settings_cache, concFrame>>

\* Two calls with inputs of their own, old-system path
InitConc ==
    /\ texts = <<>>
    /\ batch_size \in 1..MaxBatchSize
    /\ progress_callback = FALSE
    /\ result = EmptyResult
    /\ pc = "idle"
    /\ i = 0
    /\ retry_count = 0
    /\ held = 0
    /\ trace = <<>>
    /\ faults_left = MaxFaults
    /\ cpc = "none"
    /\ use_new_provider_manager = FALSE
    /\ provider_manager = FALSE
    /\ client = "none"
    /\ ret = "none"
    /\ single = FALSE
    /\ single_out = "none"
    /\ PMIdle
    /\ \E n \in [Runs -> 1..MaxRunTexts] :
        runs = [r \in Runs |->
                  [texts |-> RunTexts(r, n[r]), pc |-> "start", i |-> 0,
                   retry_count |-> 0, result |-> 0, client |-> 0]]
    /\ heap = <<>>
    /\ clients = <<>>
    /\ in_flight = 0
    /\ fetched = {}
    /\ OtherIdle

NextConc ==
    \E r \in Runs :
        \/ ConcStart(r)
        \/ ConcGetClient(r)
        \/ ConcFetched(r)
        \/ ConcLoopTop(r)
        \/ ConcRequest(r)
        \/ ConcExit(r)

SpecConc == InitConc /\ [][NextConc]_vars

\* -------------------------------------------- claims on concurrent calls
TextsIn(res) ==
    {res.failed_items[j].text : j \in DOMAIN res.failed_items}
        \cup {res.texts_processed[j] : j \in DOMAIN res.texts_processed}
InputsOf(r) == {runs[r].texts[j] : j \in DOMAIN runs[r].texts}

\* the result of a run holds outcomes of the run's own inputs only
ResultsIsolated ==
    \A r \in Runs : runs[r].result # 0 => TextsIn(heap[runs[r].result]) \subseteq InputsOf(r)

\* no result object and no client belongs to two runs, and a client is used
\* by the run that opened it only
ObjectsOwned ==
    /\ \A r1, r2 \in Runs :
        r1 # r2 =>
            /\ runs[r1].result # 0 => runs[r1].result # runs[r2].result
            /\ runs[r1].client # 0 => runs[r1].client # runs[r2].client
    /\ \A c \in DOMAIN clients : clients[c].users \subseteq {r \in Runs : runs[r].client = c}

\* the rate limiter is the one thing all runs enter
LimiterShared == in_flight = Cardinality({r \in Runs : runs[r].pc = "request"})

PastGetClient(r) == runs[r].pc \notin {"start", "get_client", "fetch"}

\* C19 as stated: the rate limiter is the only mutable state concurrent runs
\* share; results and clients are per run, and no run works with anything
\* another run wrote: in particular each run has read its provider settings
\* itself.
C19_OnlyLimiterShared ==
    /\ ResultsIsolated
    /\ ObjectsOwned
    /\ \A r \in Runs : PastGetClient(r) => r \in fetched

\* C19: concurrent runs share the rate limiter and the settings cache of the
\* resolver; each run's result object is written by that run only and each
\* run's client is used by that run only, so that a result holds outcomes of
\* the run's own inputs only.
C19_RunsOwnResultAndClient ==
    /\ ResultsIsolated
    /\ ObjectsOwned
    /\ LimiterShared
    /\ \A r \in Runs : PastGetClient(r) => fetched # {}

C19_Witness ==
    /\ runs[1].pc = "request" /\ runs[2].pc = "request"
    /\ in_flight = 2
    /\ heap[runs[1].result].success_count > 0
    /\ heap[runs[2].result].failure_count > 0
    /\ fetched = {2}

\* ------------------------------------- further claims on the batch run
ProgressOf(b) == SelectSeq(trace, LAMBDA e : e.ev = "progress" /\ e.batch = b)

\* the run is past the progress report of batch b
PastProgress(b) ==
    \/ pc \in {"returned", "raised"}
    \/ i > b * batch_size
    \/ (i = b * batch_size /\ pc = "yield")

\* C21: with a progress callback, every batch the run has requested and left
\* behind has had exactly one progress call, whatever the batch's outcome,
\* and the call carried the cumulative number of processed texts.
C21_ProgressEachBatch ==
    progress_callback =>
        \A b \in BatchIndices :
            (Requests(b) # <<>> /\ PastProgress(b)) =>
                /\ Len(ProgressOf(b)) = 1
                /\ ProgressOf(b)[1].n <= Len(texts)

\* C22: a run that has returned with at least one success has notified the
\* usage sink.
C22_UsageNotified ==
    (pc = "returned" /\ result.success_count > 0) =>
        \E p \in DOMAIN trace : trace[p].ev = "usage"

\* the outcomes input t has in the result
Outcomes(t) ==
    Cardinality({j \in DOMAIN result.texts_processed : result.texts_processed[j] = t})
        + Cardinality({j \in DOMAIN result.failed_items : result.failed_items[j].text = t})

\* C25: no input has more than one outcome in the result of a call, also
\* after the ProviderManager path has failed and the old system took over.
C25_NoReprocessing ==
    \A j \in DOMAIN texts : Outcomes(texts[j]) <= 1

\* C26: when the last reply for a batch carried fewer vectors than the batch
\* has inputs, every input of the batch is in embeddings or in failed_items
\* once the batch is over.
C26_ShortReplyRecorded ==
    \A b \in BatchIndices :
        (/\ Requests(b) # <<>>
         /\ BatchOver(b)
         /\ Last(Requests(b)).outcome = "ok"
         /\ Last(Requests(b)).n < Cardinality(TextsOfBatch(b))) =>
            TextsOfBatch(b) \subseteq (EmbeddedTexts \cup FailedTexts)

\* this step runs the catastrophic handler of create_embeddings_batch
HandlerStep ==
    /\ cpc \in {"old_get_client", "old_await"}
    /\ cpc' = "done"
    /\ ~(cpc = "old_await" /\ pc = "returned" /\ Last(trace').outcome = "-")

\* C30: when the catastrophic handler runs, the inputs that have an outcome
\* are exactly the first success_count + failure_count inputs.
C30_ProcessedIsPrefix ==
    [][HandlerStep =>
        LET n == result.success_count + result.failure_count
        IN  /\ n <= Len(texts)
            /\ (EmbeddedTexts \cup FailedTexts) = {texts[j] : j \in 1..n}]_vars

\* ------------------------------------------------------ provider registry
\* services/providers/provider_registry.py. A provider class and its instance
\* are identified by the name they are registered under; the configuration
\* passed to the constructor is left out.

\* longest fallback chain handed to set_fallback_chain
MaxChain == 2

\* names providers are registered under, names used as aliases (an alias may
\* be the name of a provider), and the names callers pass
RegisteredNames == {"openai", "anthropic"}
AliasNames == {"fast", "openai"}
ProviderNames == RegisteredNames \cup AliasNames

baseVars ==
    <<texts, batch_size, progress_callback, singleVars, result, pc, i, retry_count,
      held, trace, faults_left, callerVars, pmVars, concVars>>

RegOut(op, outcome) ==
    [op |-> op, outcome |-> outcome, chain |-> <<>>, resolved |-> <<>>, health |-> <<>>]

\* get_provider: an alias is replaced by its target
ResolveAlias(name) == IF name \in DOMAIN _aliases THEN _aliases[name] ELSE name

\* ProviderRegistry.register
Register(name) ==
    /\ IF name \in _providers
       THEN /\ reg_out' = RegOut("register", "ValueError")
            /\ UNCHANGED _providers
       ELSE /\ _providers' = _providers \cup {name}
            /\ reg_out' = RegOut("register", "ok")
    /\ UNCHANGED <<_instances, _aliases, _fallback_chain, _default_provider,
                   baseVars, partVars, lifeVars, mrVars>>

\* ProviderRegistry.unregister
Unregister(name) ==
    /\ _providers' = _providers \ {name}
    /\ _instances' = _instances \ {name}
    /\ _aliases' = [k \in {a \in DOMAIN _aliases : _aliases[a] # name} |-> _aliases[k]]
    /\ _fallback_chain' = SelectSeq(_fallback_chain, LAMBDA p : p # name)
    /\ reg_out' = RegOut("unregister", "ok")
    /\ UNCHANGED <<_default_provider, baseVars, partVars, lifeVars, mrVars>>

\* ProviderRegistry.add_alias
AddAlias(alias, provider_name) ==
    /\ IF provider_name \notin _providers
       THEN /\ reg_out' = RegOut("add_alias", "ValueError")
            /\ UNCHANGED _aliases
       ELSE /\ _aliases' = [k \in DOMAIN _aliases \cup {alias} |->
                               IF k = alias THEN provider_name ELSE _aliases[k]]
            /\ reg_out' = RegOut("add_alias", "ok")
    /\ UNCHANGED <<_providers, _instances, _fallback_chain, _default_provider,
                   baseVars, partVars, lifeVars, mrVars>>

\* the names set_fallback_chain and set_default_provider accept
Known(name) == name \in _providers \/ name \in DOMAIN _aliases

\* ProviderRegistry.set_fallback_chain
SetFallbackChain(providers) ==
    /\ IF \E k \in DOMAIN providers : ~Known(providers[k])
       THEN /\ reg_out' = RegOut("set_fallback_chain", "ValueError")
            /\ UNCHANGED _fallback_chain
       ELSE /\ _fallback_chain' = providers
            /\ reg_out' = RegOut("set_fallback_chain", "ok")
    /\ UNCHANGED <<_providers, _instances, _aliases, _default_provider,
                   baseVars, partVars, lifeVars, mrVars>>

\* ProviderRegistry.set_default_provider
SetDefaultProvider(name) ==
    /\ IF ~Known(name)
       THEN /\ reg_out' = RegOut("set_default_provider", "ValueError")
            /\ UNCHANGED _default_provider
       ELSE /\ _default_provider' = name
            /\ reg_out' = RegOut("set_default_provider", "ok")
    /\ UNCHANGED <<_providers, _instances, _aliases, _fallback_chain,
                   baseVars, partVars, lifeVars, mrVars>>

\* ProviderRegistry.get_default_provider, with the get_provider it calls
GetDefaultProvider ==
    /\ IF _default_provider = ""
       THEN /\ reg_out' = RegOut("get_default_provider", "None")
            /\ UNCHANGED _instances
       ELSE IF ResolveAlias(_default_provider) \notin _providers
       THEN /\ reg_out' = RegOut("get_default_provider", "KeyError")
            /\ UNCHANGED _instances
       ELSE /\ reg_out' = RegOut("get_default_provider", ResolveAlias(_default_provider))
            /\ _instances' = _instances \cup {ResolveAlias(_default_provider)}
    /\ UNCHANGED <<_providers, _aliases, _fallback_chain, _default_provider,
                   baseVars, partVars, lifeVars, mrVars>>

\* what a health check may do: the three statuses of BaseProvider.health_check,
\* or an exception of an overriding health_check
HealthOutcomes == {"healthy", "unhealthy", "error", "raises"}

\* a walk that takes the first provider it can resolve, whatever its health
RECURSIVE WalkFirstKnown(_, _, _)
WalkFirstKnown(k, h, inst) ==
    IF k > Len(_fallback_chain) THEN [returned |-> "None", instances |-> inst]
    ELSE IF ResolveAlias(_fallback_chain[k]) \notin _providers
    THEN WalkFirstKnown(k + 1, h, inst)
    ELSE [returned |-> ResolveAlias(_fallback_chain[k]),
          instances |-> inst \cup {ResolveAlias(_fallback_chain[k])}]

\* the for loop of get_available_provider from chain position k on; h[k] is
\* what the health check of position k does, inst the instances so far. A
\* KeyError of get_provider and an exception of the health check are caught.
RECURSIVE Walk(_, _, _)
Walk(k, h, inst) ==
    IF k > Len(_fallback_chain) THEN [returned |-> "None", instances |-> inst]
    ELSE IF ResolveAlias(_fallback_chain[k]) \notin _providers
    THEN Walk(k + 1, h, inst)
    ELSE IF h[k] = "healthy"
    THEN [returned |-> ResolveAlias(_fallback_chain[k]),
          instances |-> inst \cup {ResolveAlias(_fallback_chain[k])}]
    ELSE Walk(k + 1, h, inst \cup {ResolveAlias(_fallback_chain[k])})

\* ProviderRegistry.get_available_provider
GetAvailableProvider ==
    /\ \E h \in [DOMAIN _fallback_chain -> HealthOutcomes] :
        /\ reg_out' =
             [op |-> "get_available_provider",
              outcome |-> Walk(1, h, _instances).returned,
              chain |-> _fallback_chain,
              resolved |-> [k \in DOMAIN _fallback_chain |->
                              IF ResolveAlias(_fallback_chain[k]) \in _providers
                              THEN ResolveAlias(_fallback_chain[k]) ELSE ""],
              health |-> h]
        /\ _instances' = Walk(1, h, _instances).instances
    /\ UNCHANGED <<_providers, _aliases, _fallback_chain, _default_provider,
                   baseVars, partVars, lifeVars, mrVars>>

\* ProviderRegistry.update_provider_config: the instance is dropped
UpdateProviderConfig(name) ==
    /\ _instances' = _instances \ {name}
    /\ reg_out' = RegOut("update_provider_config", "ok")
    /\ UNCHANGED <<_providers, _aliases, _fallback_chain, _default_provider,
                   baseVars, partVars, lifeVars, mrVars>>

\* ProviderRegistry.clear
Clear ==
    /\ _providers' = {}
    /\ _instances' = {}
    /\ _aliases' = [k \in {} |-> ""]
    /\ _fallback_chain' = <<>>
    /\ _default_provider' = ""
    /\ reg_out' = RegOut("clear", "ok")
    /\ UNCHANGED <<baseVars, partVars, lifeVars, mrVars>>

Chains == UNION {[1..n -> ProviderNames] : n \in 0..MaxChain}

InitRegistry ==
    /\ EmbedIdle
    /\ PMIdle
    /\ OtherIdle

NextRegistry ==
    \/ \E name \in RegisteredNames : Register(name)
    \/ \E name \in RegisteredNames : Unregister(name)
    \/ \E alias \in AliasNames, provider_name \in RegisteredNames :
          AddAlias(alias, provider_name)
    \/ \E providers \in Chains : SetFallbackChain(providers)
    \/ \E name \in ProviderNames : SetDefaultProvider(name)
    \/ GetDefaultProvider
    \/ GetAvailableProvider
    \/ \E name \in RegisteredNames : UpdateProviderConfig(name)
    \/ Clear

SpecRegistry == InitRegistry /\ [][NextRegistry]_vars

\* ------------------------------------------------- claims on the registry
\* the chain positions of a get_available_provider call whose provider was
\* found and reported healthy
HealthyAt(o) == {k \in DOMAIN o.chain : o.resolved[k] # "" /\ o.health[k] = "healthy"}

\* C23: get_available_provider returns the provider of the first chain
\* position whose health check reports 'healthy'; positions before it that
\* are unhealthy, report an error, raise or are not registered are skipped;
\* None is returned exactly when no position is healthy.
C23_FirstHealthy ==
    reg_out.op = "get_available_provider" =>
        IF HealthyAt(reg_out) = {}
        THEN reg_out.outcome = "None"
        ELSE \E k \in HealthyAt(reg_out) :
                /\ \A j \in HealthyAt(reg_out) : k <= j
                /\ reg_out.outcome = reg_out.resolved[k]

C23_Witness ==
    /\ reg_out.op = "get_available_provider"
    /\ Len(reg_out.chain) = 2
    /\ reg_out.health[1] = "raises"
    /\ reg_out.health[2] = "healthy"
    /\ reg_out.outcome = reg_out.resolved[2]
    /\ reg_out.outcome # ""
    /\ reg_out.resolved[1] # ""

\* C28: every name of the fallback chain and the default provider name
\* resolve, directly or through an alias, to a registered provider, and
\* get_default_provider does not raise KeyError.
C28_NamesResolve ==
    /\ \A k \in DOMAIN _fallback_chain : ResolveAlias(_fallback_chain[k]) \in _providers
    /\ _default_provider # "" => ResolveAlias(_default_provider) \in _providers
    /\ reg_out.op = "get_default_provider" => reg_out.outcome # "KeyError"

\* ------------------------------------------------------ _make_request
\* providers/clients/base_client.py: one call of BaseProviderClient._make_request.

\* largest config.max_retries looked at
MaxConfigRetries == 6

\* the cap of _wait_before_retry, in seconds
MaxWait == 30

\* what one attempt may do: answer, fail with an aiohttp.ClientError, or fail
\* with an exception that is not one (the total timeout raises asyncio.TimeoutError)
ClientErrors == {"ClientResponseError", "ClientConnectionError"}
NonClientErrors == {"TimeoutError"}
AttemptOutcomes == {"ok"} \cup ClientErrors \cup NonClientErrors

MrEvent(ev, outcome, seconds) == [ev |-> ev, outcome |-> outcome, seconds |-> seconds]

\* a backoff without the cap
wait_time_uncapped(attempt) == 2 ^ attempt

\* _wait_before_retry: wait_time
wait_time(attempt) == Min(2 ^ attempt, MaxWait)

\* entry of _make_request: the session check, retries = 0, last_error = None
MrEnter ==
    /\ mr_pc = "idle"
    /\ IF ~session
       THEN /\ mr_pc' = "raised"
            /\ mr_log' = Append(mr_log, MrEvent("raise", "RuntimeError", 0))
            /\ UNCHANGED <<retries, last_error>>
       ELSE /\ mr_pc' = "loop"
            /\ retries' = 0
            /\ last_error' = ""
            /\ UNCHANGED mr_log
    /\ UNCHANGED <<session, config_max_retries, baseVars, regVars, partVars, lifeVars>>

\* one pass of the while loop up to the wait: the request and its outcome
MrAttempt(outcome) ==
    /\ mr_pc = "loop"
    /\ retries < config_max_retries
    /\ IF outcome = "ok"
       THEN /\ mr_pc' = "returned"
            /\ mr_log' = Append(mr_log, MrEvent("attempt", outcome, 0))
            /\ UNCHANGED <<retries, last_error>>
       ELSE IF outcome \in ClientErrors
       THEN /\ last_error' = outcome
            /\ retries' = retries + 1
            /\ mr_pc' = IF retries + 1 < config_max_retries THEN "wait" ELSE "loop"
            /\ mr_log' = Append(mr_log, MrEvent("attempt", outcome, 0))
       ELSE /\ mr_pc' = "raised"
            /\ mr_log' = Append(Append(mr_log, MrEvent("attempt", outcome, 0)),
                                MrEvent("raise", outcome, 0))
            /\ UNCHANGED <<retries, last_error>>
    /\ UNCHANGED <<session, config_max_retries, baseVars, regVars, partVars, lifeVars>>

\* await self._wait_before_retry(retries)
MrWait ==
    /\ mr_pc = "wait"
    /\ mr_log' = Append(mr_log, MrEvent("wait", "-", wait_time(retries)))
    /\ mr_pc' = "loop"
    /\ UNCHANGED <<session, config_max_retries, retries, last_error,
                   baseVars, regVars, partVars, lifeVars>>

\* the loop condition is false: raise last_error or Exception("Request failed")
MrExit ==
    /\ mr_pc = "loop"
    /\ ~(retries < config_max_retries)
    /\ mr_pc' = "raised"
    /\ mr_log' = Append(mr_log, MrEvent("raise",
                           IF last_error # "" THEN last_error ELSE "Exception", 0))
    /\ UNCHANGED <<session, config_max_retries, retries, last_error,
                   baseVars, regVars, partVars, lifeVars>>

\* a client with some max_retries, used inside or outside 'async with'
InitRequest ==
    /\ EmbedIdle
    /\ PMIdle
    /\ RegistryEmpty
    /\ PartIdle
    /\ LifespanIdle
    /\ session \in BOOLEAN
    /\ config_max_retries \in 0..MaxConfigRetries
    /\ retries = 0
    /\ last_error = ""
    /\ mr_pc = "idle"
    /\ mr_log = <<>>

NextRequest ==
    \/ MrEnter
    \/ \E outcome \in AttemptOutcomes : MrAttempt(outcome)
    \/ MrWait
    \/ MrExit

SpecRequest == InitRequest /\ [][NextRequest]_vars

\* Every await of the call completes: the session's total timeout ends a
\* request, asyncio.sleep ends a wait.
SpecRequestFair == SpecRequest /\ WF_vars(NextRequest)

\* ------------------------------------------------- claims on _make_request
Attempts == SelectSeq(mr_log, LAMBDA e : e.ev = "attempt")
AttemptsBefore(p) == Len(SelectSeq(SubSeq(mr_log, 1, p - 1), LAMBDA e : e.ev = "attempt"))
MrOver == mr_pc \in {"returned", "raised"}

\* the n-th retry comes after a ClientError and a wait of min(2^n, 30) seconds
RetriesBackOff ==
    \A p \in DOMAIN mr_log :
        /\ mr_log[p].ev = "wait" =>
              /\ p > 1
              /\ mr_log[p - 1].ev = "attempt"
              /\ mr_log[p - 1].outcome \in ClientErrors
              /\ mr_log[p].seconds = Min(2 ^ AttemptsBefore(p), 30)
        /\ (mr_log[p].ev = "attempt" /\ AttemptsBefore(p) > 0) =>
              /\ mr_log[p - 1].ev = "wait"
              /\ mr_log[p - 1].seconds = Min(2 ^ AttemptsBefore(p), 30)

\* the call ends with the first successful response or with the error of
\* the last attempt
EndsWithLastAttempt ==
    /\ \A k \in DOMAIN Attempts : Attempts[k].outcome = "ok" => k = Len(Attempts) /\ mr_pc = "returned"
    /\ mr_pc = "returned" => (Attempts # <<>> /\ Last(Attempts).outcome = "ok")
    /\ mr_pc = "raised" =>
          /\ Attempts # <<>>
          /\ Last(mr_log).ev = "raise"
          /\ Last(mr_log).outcome = Last(Attempts).outcome

RetryContract ==
    /\ Len(Attempts) <= config_max_retries
    /\ RetriesBackOff
    /\ EndsWithLastAttempt

\* C29 as stated: for any max_retries >= 1 the call terminates after at most
\* max_retries attempts, returning the first successful response or raising
\* the error of the last attempt, waiting min(2^n, 30) seconds before the
\* n-th retry and retrying only after an aiohttp.ClientError.
C29_RetryContract ==
    /\ [](config_max_retries >= 1 => RetryContract)
    /\ <>(config_max_retries >= 1 => MrOver)

\* C29 amended: the same for a client whose session is open; without a
\* session the call raises RuntimeError and makes no attempt.
C29_RetryContractOpenSession ==
    /\ []((config_max_retries >= 1 /\ session) => RetryContract)
    /\ []((~session /\ MrOver) =>
            (mr_pc = "raised" /\ mr_log = <<MrEvent("raise", "RuntimeError", 0)>>))
    /\ <>(config_max_retries >= 1 => MrOver)

C29_Witness ==
    /\ session
    /\ config_max_retries = MaxConfigRetries
    /\ mr_pc = "raised"
    /\ Len(Attempts) = config_max_retries
    /\ \E p \in DOMAIN mr_log : mr_log[p].ev = "wait" /\ mr_log[p].seconds = 30
    /\ Last(mr_log).outcome = "ClientConnectionError"
    /\ Attempts[1].outcome = "ClientResponseError"

\* ------------------------------------------------------ the batch partition
\* embedding_service.py, _process_embeddings_with_client lines 84-98: the
\* batch size read from the rag_strategy settings and the slices the for
\* loop takes, without the requests made for them.

\* the EMBEDDING_BATCH_SIZE setting: absent, not a number, a number, or the
\* settings cannot be read
BatchSizeSettings ==
    {NoSetting, [kind |-> "text", value |-> 0], [kind |-> "raises", value |-> 0]}
        \cup {[kind |-> "int", value |-> v] : v \in (-1)..MaxBatchSize}

\* batch_size = 100, replaced by int(rag_settings.get("EMBEDDING_BATCH_SIZE", "100"))
\* unless reading or int() raises
LoadBatchSize(setting) ==
    IF setting.kind = "int" THEN setting.value ELSE DefaultBatchSize

\* range(0, len(texts), batch_size) has a value at i
InRange(n, step, at) ==
    IF step > 0 THEN at < n ELSE at > n

\* lines 84-92
PartLoad ==
    /\ part.pc = "idle"
    /\ part' = [part EXCEPT !.batch_size = LoadBatchSize(part.setting), !.pc = "range"]
    /\ UNCHANGED <<baseVars, regVars, lifeVars, mrVars>>

\* line 96, range(): a step of 0 raises ValueError
PartRange ==
    /\ part.pc = "range"
    /\ part' = [part EXCEPT !.pc = IF part.batch_size = 0 THEN "raised" ELSE "loop",
                            !.i = 0]
    /\ UNCHANGED <<baseVars, regVars, lifeVars, mrVars>>

\* lines 96-98: one pass of the for loop
PartBatch ==
    /\ part.pc = "loop"
    /\ InRange(Len(part.texts), part.batch_size, part.i)
    /\ part' = [part EXCEPT
                  !.batches = Append(part.batches, Slice(part.texts, part.i, part.i + part.batch_size)),
                  !.i = part.i + part.batch_size]
    /\ UNCHANGED <<baseVars, regVars, lifeVars, mrVars>>

\* the range is exhausted
PartEnd ==
    /\ part.pc = "loop"
    /\ ~InRange(Len(part.texts), part.batch_size, part.i)
    /\ part' = [part EXCEPT !.pc = "done"]
    /\ UNCHANGED <<baseVars, regVars, lifeVars, mrVars>>

PartTexts == UNION {[1..n -> 1..MaxTexts] : n \in 0..MaxTexts}

InitPartition ==
    /\ EmbedIdle
    /\ PMIdle
    /\ RegistryEmpty
    /\ LifespanIdle
    /\ RequestIdle
    /\ \E t \in PartTexts, setting \in BatchSizeSettings :
          part = [texts |-> t, setting |-> setting, batch_size |-> DefaultBatchSize,
                  i |-> 0, batches |-> <<>>, pc |-> "idle"]

NextPartition ==
    \/ PartLoad
    \/ PartRange
    \/ PartBatch
    \/ PartEnd

SpecPartition == InitPartition /\ [][NextPartition]_vars

\* ------------------------------------------------- claims on the partition
RECURSIVE Flatten(_)
Flatten(ss) == IF ss = <<>> THEN <<>> ELSE Head(ss) \o Flatten(Tail(ss))

\* C24: for any input list and any configured batch size the loop is entered
\* and, when it ends, the batches are consecutive slices of the input, each of
\* 1 to batch-size items (100 when no size is configured), that put together
\* are the input.
C24_BatchesPartitionInput ==
    /\ part.pc # "raised"
    /\ part.pc \in {"range", "loop", "done"} =>
          (part.setting.kind # "int" => part.batch_size = DefaultBatchSize)
    /\ part.pc = "done" =>
          /\ Flatten(part.batches) = part.texts
          /\ \A b \in DOMAIN part.batches :
                /\ Len(part.batches[b]) >= 1
                /\ Len(part.batches[b]) <= part.batch_size

\* ------------------------------------------------------ MCP server lifespan
\* mcp_server/mcp_server.py: lifespan is entered once per connection, all on
\* the one event loop thread that mcp.run starts. _initialization_lock is a
\* threading.Lock: acquiring it while it is held blocks the calling thread.
\* A connection is "out" before lifespan is called for it, "entered" once the
\* call is scheduled, "health" while suspended in await perform_health_checks,
\* "yielded" while suspended at a yield, "blocked" inside Lock.acquire,
\* "failed" when the setup raised, "cancelled" when the task was cancelled
\* during the health check, "done" after the connection closed.

\* the event loop thread is inside a blocking Lock.acquire: no coroutine runs
LoopBlocked == \E c \in Conns : conns[c] = "blocked"

\* perform_health_checks: the status it leaves in the context
HealthStatuses == {"healthy", "degraded", "unhealthy"}

\* the framework calls lifespan for a new connection
LifespanEnter(c) ==
    /\ ~LoopBlocked
    /\ conns[c] = "out"
    /\ conns' = [conns EXCEPT ![c] = "entered"]
    /\ UNCHANGED <<_initialization_lock, _initialization_complete, _shared_context,
                   baseVars, regVars, partVars, mrVars>>

\* lifespan from its first line to its first suspension: the quick check,
\* the lock, the double check (the flag cannot have changed since the quick
\* check, no other coroutine ran), the session manager and the service
\* client, either of which may raise
LifespanStart(c) ==
    /\ ~LoopBlocked
    /\ conns[c] = "entered"
    /\ IF _initialization_complete /\ _shared_context # ""
       THEN /\ conns' = [conns EXCEPT ![c] = "yielded"]
            /\ UNCHANGED _initialization_lock
       ELSE IF _initialization_lock # 0
       THEN /\ conns' = [conns EXCEPT ![c] = "blocked"]
            /\ UNCHANGED _initialization_lock
       ELSE \/ /\ _initialization_lock' = c
               /\ conns' = [conns EXCEPT ![c] = "health"]
            \/ /\ conns' = [conns EXCEPT ![c] = "failed"]
               /\ UNCHANGED _initialization_lock
    /\ UNCHANGED <<_initialization_complete, _shared_context,
                   baseVars, regVars, partVars, mrVars>>

\* perform_health_checks returns: the context is stored, the flag set, and
\* the context yielded with the lock still held
LifespanHealthDone(c, status) ==
    /\ ~LoopBlocked
    /\ conns[c] = "health"
    /\ _shared_context' = status
    /\ _initialization_complete' = TRUE
    /\ conns' = [conns EXCEPT ![c] = "yielded"]
    /\ UNCHANGED <<_initialization_lock, baseVars, regVars, partVars, mrVars>>

\* the task is cancelled during the health check: CancelledError passes
\* 'except Exception', the finally block and the with statement release the lock
LifespanCancelled(c) ==
    /\ ~LoopBlocked
    /\ conns[c] = "health"
    /\ _initialization_lock' = 0
    /\ conns' = [conns EXCEPT ![c] = "cancelled"]
    /\ UNCHANGED <<_initialization_complete, _shared_context,
                   baseVars, regVars, partVars, mrVars>>

\* the connection closes: lifespan resumes after its yield and leaves, the
\* initializing one through the finally block and the end of the with statement
LifespanExit(c) ==
    /\ ~LoopBlocked
    /\ conns[c] = "yielded"
    /\ conns' = [conns EXCEPT ![c] = "done"]
    /\ _initialization_lock' = IF _initialization_lock = c THEN 0 ELSE _initialization_lock
    /\ UNCHANGED <<_initialization_complete, _shared_context,
                   baseVars, regVars, partVars, mrVars>>

InitLifespan ==
    /\ EmbedIdle
    /\ PMIdle
    /\ OtherIdle

NextLifespan ==
    \/ \E c \in Conns : LifespanEnter(c)
    \/ \E c \in Conns : LifespanStart(c)
    \/ \E c \in Conns, status \in HealthStatuses : LifespanHealthDone(c, status)
    \/ \E c \in Conns : LifespanCancelled(c)
    \/ \E c \in Conns : LifespanExit(c)

SpecLifespan == InitLifespan /\ [][NextLifespan]_vars

\* The event loop runs every scheduled coroutine, and the health check's HTTP
\* call ends; when a connection arrives or closes is up to the clients.
SpecLifespanFair ==
    /\ SpecLifespan
    /\ \A c \in Conns : WF_vars(LifespanStart(c))
    /\ \A c \in Conns : WF_vars(\E status \in HealthStatuses : LifespanHealthDone(c, status))

\* ------------------------------------------------- claims on the lifespan
\* C27: every entry into lifespan eventually yields a context (or ends with
\* the error of a failed setup or a cancellation): a connection that arrives while another
\* connection's initialization is suspended on the health check, holding the
\* lock, is not blocked forever.
C27_EntryYields ==
    \A c \in Conns :
        (conns[c] = "entered") ~> (conns[c] \in {"yielded", "failed", "cancelled", "done"})

====
